---- MODULE Spec2Model ----
(***************************************************************************)
(* A model of the numeric core of src/D9.py: the Matrix class and the      *)
(* FlightSimulator entity (per-frame update, pause menu, ground collision, *)
(* duration cap, end of flight).                                           *)
(*                                                                         *)
(* Conventions.                                                            *)
(*  - Python values that are inspected at run time are tagged records:     *)
(*    a Matrix object, a str, a number, or a raised exception.             *)
(*  - Python lists are sequences; Python index i is TLA+ index i + 1.      *)
(*  - Real numbers of the flight loop are exact decimals with five         *)
(*    places, held as integers in units of 1/Scale (dt = 0.01667 is 1667). *)
(***************************************************************************)
EXTENDS Integers, Sequences, FiniteSets, TLC

(***************************************************************************)
(* Python values                                                           *)
(***************************************************************************)

\* a Python number
Num(n) == [tag |-> "num", val |-> n]

\* the Python str made of `reps` copies of "Error" ("Error" itself is reps = 1)
Str(reps) == [tag |-> "str", reps |-> reps]

\* the value every shape check of Matrix returns: the str "Error"
ErrorStr == Str(1)

\* an exception propagating out of the expression
Raise(exc) == [tag |-> "raise", exc |-> exc]

IsMatrix(v) == v.tag = "Matrix"
IsNum(v) == v.tag = "num"
IsStr(v) == v.tag = "str"
IsRaise(v) == v.tag = "raise"

(***************************************************************************)
(* class Matrix                                                            *)
(***************************************************************************)

\* Matrix.__init__: data is kept as given, height and width are cached
Matrix(data) ==
    [tag |-> "Matrix",
     data |-> data,
     height |-> Len(data),
     width |-> IF Len(data) > 0 THEN Len(data[1]) ELSE 0]

\* the indices of range(n) other than `skip`, in order
RangeWithout(n, skip) ==
    LET kept == IF skip \in 0..(n - 1) THEN n - 1 ELSE n
    IN  [p \in 1..kept |-> IF p - 1 < skip \/ skip < 0 THEN p - 1 ELSE p]

\* Matrix.sub(self, y, x): keeps the rows i # x and, in each, the columns j # y
sub(self, y, x) ==
    LET rows == RangeWithout(self.height, x)
        cols == RangeWithout(self.width, y)
    IN  Matrix([p \in 1..Len(rows) |->
                  [q \in 1..Len(cols) |-> self.data[rows[p] + 1][cols[q] + 1]]])

\* (-1) ** i
Sign(i) == IF i % 2 = 0 THEN 1 ELSE -1

RECURSIVE det(_)
RECURSIVE detLoop(_, _)

\* the loop of Matrix.det: t after the iterations i = 0 .. n - 1
detLoop(self, n) ==
    IF n = 0 THEN 0
    ELSE LET i == n - 1
             r == sub(self, 0, i)
         IN  detLoop(self, n - 1) + self.data[1][i + 1] * det(r).val * Sign(i)

\* Matrix.det(self)
det(self) ==
    IF self.height # self.width THEN ErrorStr
    ELSE IF self.width = 1 THEN Num(self.data[1][1])
    ELSE Num(detLoop(self, self.height))

\* + that counts the elements of the first operand twice
addLeftTwice(self, other) ==
    IF ~IsMatrix(other) THEN Raise("AttributeError")
    ELSE IF self.height # other.height \/ self.width # other.width THEN ErrorStr
    ELSE Matrix([i \in 1..self.height |->
                   [j \in 1..self.width |->
                      2 * self.data[i][j] + other.data[i][j]]])

\* + that subtracts the elements of the second operand
addNegated(self, other) ==
    IF ~IsMatrix(other) THEN Raise("AttributeError")
    ELSE IF self.height # other.height \/ self.width # other.width THEN ErrorStr
    ELSE Matrix([i \in 1..self.height |->
                   [j \in 1..self.width |-> self.data[i][j] - other.data[i][j]]])

\* Matrix.__add__(self, other)
add(self, other) ==
    IF ~IsMatrix(other) THEN Raise("AttributeError")
    ELSE IF self.height # other.height \/ self.width # other.width THEN ErrorStr
    ELSE Matrix([i \in 1..self.height |->
                   [j \in 1..self.width |-> self.data[i][j] + other.data[i][j]]])

RECURSIVE DotLoopFromOne(_, _, _, _, _)
\* the inner loop with sum_val starting at 1
DotLoopFromOne(self, other, i, j, n) ==
    IF n = 0 THEN 1
    ELSE DotLoopFromOne(self, other, i, j, n - 1)
           + self.data[i][n] * other.data[n][j]

RECURSIVE DotLoop(_, _, _, _, _)
\* the inner loop of Matrix.__mul__: sum_val after k = 0 .. n - 1
DotLoop(self, other, i, j, n) ==
    IF n = 0 THEN 0
    ELSE DotLoop(self, other, i, j, n - 1) + self.data[i][n] * other.data[n][j]

\* an element of a Matrix of ints times the scalar operand: int * int, or
\* int * str, which Python evaluates to the str repeated
ElemTimes(x, other) ==
    IF IsNum(other) THEN x * other.val
    ELSE Str(IF x * other.reps > 0 THEN x * other.reps ELSE 0)

\* * whose matrix product has every element one too large
mulOffset(self, other) ==
    IF IsMatrix(other)
    THEN IF self.width # other.height THEN ErrorStr
         ELSE Matrix([i \in 1..self.height |->
                        [j \in 1..other.width |->
                           DotLoop(self, other, i, j, self.width) + 1]])
    ELSE Matrix([i \in 1..self.height |->
                   [j \in 1..self.width |-> ElemTimes(self.data[i][j], other)]])

\* Matrix.__mul__(self, other)
mul(self, other) ==
    IF IsMatrix(other)
    THEN IF self.width # other.height THEN ErrorStr
         ELSE Matrix([i \in 1..self.height |->
                        [j \in 1..other.width |->
                           DotLoop(self, other, i, j, self.width)]])
    ELSE Matrix([i \in 1..self.height |->
                   [j \in 1..self.width |-> ElemTimes(self.data[i][j], other)]])

\* scalar * matrix that ignores the scalar
rmulByZero(self, other) == mul(self, Num(0))

\* Matrix.__rmul__(self, other)
rmul(self, other) == mul(self, other)

(***************************************************************************)
(* Python's + and * on the values above                                    *)
(***************************************************************************)

\* a + b: Matrix.__add__ when a is a Matrix; str + str concatenates; a str or
\* a number has no + with a Matrix (Matrix defines no __radd__)
PyAdd(a, b) ==
    IF IsRaise(a) THEN a
    ELSE IF IsRaise(b) THEN b
    ELSE IF IsMatrix(a) THEN add(a, b)
    ELSE IF IsStr(a) /\ IsStr(b) THEN Str(a.reps + b.reps)
    ELSE IF IsNum(a) /\ IsNum(b) THEN Num(a.val + b.val)
    ELSE Raise("TypeError")

\* a * b: Matrix.__mul__ when a is a Matrix, Matrix.__rmul__ when only b is;
\* the only number a str meets in this program is self.dt, a float, and
\* str * float raises TypeError
PyMul(a, b) ==
    IF IsRaise(a) THEN a
    ELSE IF IsRaise(b) THEN b
    ELSE IF IsMatrix(a) THEN mul(a, b)
    ELSE IF IsMatrix(b) THEN rmul(b, a)
    ELSE IF IsNum(a) /\ IsNum(b) THEN Num(a.val * b.val)
    ELSE Raise("TypeError")

(***************************************************************************)
(* Numbers of the flight loop                                              *)
(***************************************************************************)

\* units per 1.0 of a control value, a state-vector element or a time
Scale == 10 ^ 5

\* self.dt = 0.01667, in units of 1/Scale
dt == 1667

\* the maximum passed to update_control_surface
maximum == 5

\* the control rate, spring-back rate and snap factor of update_control_surface
InputRate == 3
SpringRate == 5
SnapFactor == 10

\* the duration cap of update, in seconds
FlightCap == 120

\* self.ground_y
ground_y == -100

\* the y of the plane entity at construction: position = (0, -2, 20)
PlaneStartY == -2

Abs(n) == IF n < 0 THEN -n ELSE n

\* a product of two values in units of 1/Scale, back in units of 1/Scale
\* (rounded toward zero, where a float product rounds to nearest)
Rescale(n) == IF n >= 0 THEN n \div Scale ELSE -((-n) \div Scale)

(***************************************************************************)
(* State                                                                   *)
(***************************************************************************)

VARIABLES
    sim,        \* the attributes of the FlightSimulator instance (self)
    plane,      \* the entity self.plane: y, level (rotation = (0,0,0)), alive
    ui,         \* the entities of the overlay: escape handler, pause menu,
                \* crash message, Continue buttons
    session,    \* the module globals flight_time and crashed, the level and
                \* the flight minutes of current_user, and the number of
                \* PostFlight screens created
    phase,      \* "flying", "failed" (the constructor raised), "raised" (a
                \* frame raised: the exception leaves app.run())
    held_keys,  \* ursina's held_keys as sampled by the latest frame
    budget,     \* running frames the model still explores
    lab         \* the operands and the result of the latest Matrix operation

vars == <<sim, plane, ui, session, phase, held_keys, budget, lab>>

flightVars == <<sim, plane, ui, session, phase, held_keys, budget>>

\* everything a frame, a key press or a click can read or write
World == [sim |-> sim, plane |-> plane, ui |-> ui, session |-> session,
          phase |-> phase]

(***************************************************************************)
(* FlightSimulator.setup_physics and __init__                              *)
(***************************************************************************)

\* Python's s[a:b] for 0 <= a <= b
Slice(s, a, b) ==
    LET hi == IF b < Len(s) THEN b ELSE Len(s)
        lo == IF a < hi THEN a ELSE hi
    IN  [p \in 1..(hi - lo) |-> s[lo + p]]

\* the parse of the matrix file: text is the file as rows of numbers, a row
\* with no number being an empty line ('' splits to [''] and float('') raises)
ParseMatrixFile(text) ==
    IF \E r \in 1..Len(text) : Len(text[r]) = 0
    THEN Raise("ValueError")
    ELSE [tag |-> "list", rows |-> text]

\* setup_physics: the four matrices, or the exception of the parse
setup_physics(text) ==
    LET matrix_combo == ParseMatrixFile(text)
    IN  IF IsRaise(matrix_combo) THEN matrix_combo
        ELSE [tag |-> "ok",
              A |-> Matrix(Slice(matrix_combo.rows, 0, 4)),
              B |-> Matrix(Slice(matrix_combo.rows, 4, 8)),
              C |-> Matrix(Slice(matrix_combo.rows, 8, 12)),
              D |-> Matrix(Slice(matrix_combo.rows, 12, 16))]

\* A telemetry list.  The lists only grow, by append, and the program reads
\* no entry before the last two (velocity_data[-1] and [-2]) during a flight:
\* the model keeps the length of a list and its last two entries
EmptyList == [len |-> 0, tail |-> <<>>]

\* list.append(x)
ListAppend(l, x) ==
    [len |-> l.len + 1,
     tail |-> IF l.len = 0 THEN <<x>> ELSE <<l.tail[Len(l.tail)], x>>]

ZeroState == Matrix(<< <<0>>, <<0>>, <<0>>, <<0>> >>)

\* current_user when the flight starts: a pilot of level 3 with 5 minutes
Pilot == [level |-> 3, flight_minutes |-> 5 * Scale]

\* FlightSimulator.__init__ on a matrix file
Construct(text) ==
    LET m == setup_physics(text)
    IN  [sim |->
           [A |-> IF IsRaise(m) THEN Matrix(<<>>) ELSE m.A,
            B |-> IF IsRaise(m) THEN Matrix(<<>>) ELSE m.B,
            C |-> IF IsRaise(m) THEN Matrix(<<>>) ELSE m.C,
            D |-> IF IsRaise(m) THEN Matrix(<<>>) ELSE m.D,
            state_long |-> ZeroState,
            state_lat |-> ZeroState,
            flight_time |-> 0,
            run |-> ~IsRaise(m),
            menu_active |-> FALSE,
            crashed |-> FALSE,
            elevator |-> 0,
            aileron |-> 0,
            rudder |-> 0,
            time_data |-> EmptyList,
            aoa_data |-> EmptyList,
            velocity_data |-> EmptyList,
            gforce_data |-> EmptyList,
            altitude_data |-> EmptyList],
         plane |-> [y |-> PlaneStartY, level |-> TRUE, alive |-> ~IsRaise(m)],
         ui |-> [input_handler |-> ~IsRaise(m),
                 menu_panel |-> ~IsRaise(m),
                 menu_enabled |-> FALSE,
                 crash_message |-> "None",
                 continue_buttons |-> 0],
         session |-> [flight_time |-> 0, crashed |-> FALSE, postflights |-> 0,
                      level |-> Pilot.level,
                      flight_minutes |-> Pilot.flight_minutes],
         phase |-> IF IsRaise(m) THEN "failed" ELSE "flying"]

(***************************************************************************)
(* FlightSimulator: control surfaces                                       *)
(***************************************************************************)

Keys == {"w", "s", "e", "q", "a", "d"}

\* the displacements of the plane along y in one frame that the model
\* explores: none, or a descent from the starting height to the ground
DyChoices == {-97, 0}

\* the snap test with the time step itself as the threshold
SnapToZeroNarrow(held, control, increase_key, decrease_key) ==
    Abs(control) < dt
    /\ ~(increase_key \in held \/ decrease_key \in held)

\* the snap test of update_control_surface
SnapToZero(held, control, increase_key, decrease_key) ==
    Abs(control) < SnapFactor * dt
    /\ ~(increase_key \in held \/ decrease_key \in held)

\* update_control_surface without the snap to zero
update_control_surface_unsnapped(held, control, increase_key, decrease_key, max) ==
    IF increase_key \in held /\ control < max * Scale
      THEN control + InputRate * dt
    ELSE IF decrease_key \in held /\ control > -(max * Scale)
      THEN control - InputRate * dt
    ELSE IF control > 0 THEN control - SpringRate * dt
    ELSE IF control < 0 THEN control + SpringRate * dt
    ELSE control

\* update_control_surface(self, control, increase_key, decrease_key, maximum)
\* with held_keys = held
update_control_surface(held, control, increase_key, decrease_key, max) ==
    LET moved ==
          IF increase_key \in held /\ control < max * Scale
            THEN control + InputRate * dt
          ELSE IF decrease_key \in held /\ control > -(max * Scale)
            THEN control - InputRate * dt
          ELSE IF control > 0 THEN control - SpringRate * dt
          ELSE IF control < 0 THEN control + SpringRate * dt
          ELSE control
    IN  IF SnapToZero(held, moved, increase_key, decrease_key) THEN 0 ELSE moved

\* the three updates with the rudder reading the keys of the aileron
update_control_inputs_crossed(s, held) ==
    [s EXCEPT
       !.elevator = update_control_surface(held, s.elevator, "w", "s", maximum),
       !.aileron = update_control_surface(held, s.aileron, "e", "q", maximum),
       !.rudder = update_control_surface(held, s.rudder, "e", "q", maximum)]

\* update_control_inputs(self)
update_control_inputs(s, held) ==
    [s EXCEPT
       !.elevator = update_control_surface(held, s.elevator, "w", "s", maximum),
       !.aileron = update_control_surface(held, s.aileron, "e", "q", maximum),
       !.rudder = update_control_surface(held, s.rudder, "a", "d", maximum)]

(***************************************************************************)
(* FlightSimulator: state integration                                      *)
(***************************************************************************)

\* expr * self.dt: the Matrix of the element products, back in units of 1/Scale
TimesDt(expr) ==
    LET r == PyMul(expr, Num(dt))
    IN  IF IsMatrix(r)
        THEN Matrix([i \in 1..r.height |->
                       [j \in 1..r.width |-> Rescale(r.data[i][j])]])
        ELSE r

\* the longitudinal step with the elevator read one unit off its value
LongStepOffset(s) ==
    PyAdd(s.state_long,
          TimesDt(PyAdd(PyMul(s.A, s.state_long),
                        PyMul(s.B, Num(s.elevator + Scale)))))

\* the right-hand side of self.state_long += (A * state_long + B * elevator) * dt
LongStep(s) ==
    PyAdd(s.state_long,
          TimesDt(PyAdd(PyMul(s.A, s.state_long), PyMul(s.B, Num(s.elevator)))))

\* the right-hand side of
\* self.state_lat += (C * state_lat + D * Matrix([[aileron], [rudder]])) * dt
LatStep(s) ==
    PyAdd(s.state_lat,
          TimesDt(PyAdd(PyMul(s.C, s.state_lat),
                        PyMul(s.D, Matrix(<< <<s.aileron>>, <<s.rudder>> >>)))))

\* the update that also stores twice B in self.B
update_state_vectors_scaling_B(s) ==
    LET long == LongStep(s)
    IN  IF IsRaise(long) THEN [sim |-> s, raised |-> TRUE]
        ELSE LET s1 == [s EXCEPT !.state_long = long]
                 lat == LatStep(s1)
             IN  IF IsRaise(lat) THEN [sim |-> s1, raised |-> TRUE]
                 ELSE [sim |-> [s1 EXCEPT !.state_lat = lat,
                                          !.B = PyMul(s.B, Num(2))],
                       raised |-> FALSE]

\* update_state_vectors(self): the new attributes and whether it raised; the
\* str that + returns for mismatched shapes is stored like any other value
update_state_vectors(s) ==
    LET long == LongStep(s)
    IN  IF IsRaise(long) THEN [sim |-> s, raised |-> TRUE]
        ELSE LET s1 == [s EXCEPT !.state_long = long]
                 lat == LatStep(s1)
             IN  IF IsRaise(lat) THEN [sim |-> s1, raised |-> TRUE]
                 ELSE [sim |-> [s1 EXCEPT !.state_lat = lat], raised |-> FALSE]

(***************************************************************************)
(* FlightSimulator: pose, collision, telemetry, end of flight              *)
(***************************************************************************)

\* Python's x[i][j] on the data of a state vector or of A
At(m, i, j) == m.data[i + 1][j + 1]

\* the perturbation u alone, without the cruise speed
AirspeedPerturbation(s) == At(s.state_long, 0, 0)

\* cruise_speed and v of update_plane and update_data
cruise_speed(s) == At(s.A, 1, 2)
Airspeed(s) == At(s.state_long, 0, 0) + cruise_speed(s) * Scale

\* fv of update_plane, v * cos(sidelip_angle): v when the sideslip is 0
\* (cos(0) = 1), otherwise some value of smaller magnitude
ForwardVelocities(s) ==
    IF At(s.state_lat, 0, 0) = 0 THEN {Airspeed(s)}
    ELSE {fv \in -Abs(Airspeed(s))..Abs(Airspeed(s)) : Abs(fv) < Abs(Airspeed(s))}

\* vv of update_plane
VerticalSpeed(s) == At(s.state_long, 1, 0)

\* pitch, yaw and roll of update_plane are all zero
AnglesZero(s) ==
    /\ At(s.state_long, 2, 0) = 0
    /\ At(s.state_lat, 2, 0) = 0
    /\ At(s.state_lat, 3, 0) = 0

\* update_plane raises: the plane entity was destroyed (an empty NodePath), or
\* a state vector is the str of a failed shape check (no getmatrix)
PlaneRaises(s, p) ==
    ~p.alive \/ ~IsMatrix(s.state_long) \/ ~IsMatrix(s.state_lat)

\* the y displacements update_plane can produce.  The engine computes the
\* basis vectors forward, up and right from the accumulated rotation: with
\* the rotation at (0,0,0) only vv moves the plane along y, and with no
\* speed at all nothing does; the amplitude is drawn from DyChoices
Displacements(s, level) ==
    IF VerticalSpeed(s) # 0 \/ (Airspeed(s) # 0 /\ ~level)
    THEN DyChoices
    ELSE {0}

\* update_plane(self), moving the plane by dy along y
update_plane(s, p, dy) ==
    LET level == p.level /\ AnglesZero(s)
    IN  [p EXCEPT !.level = level,
                  !.y = IF dy \in Displacements(s, level) THEN @ + dy ELSE @]

\* the collision test with a strict comparison
check_ground_collision_strict(w) ==
    LET aircraft_lowest_point == w.plane.y - 1
    IN  IF aircraft_lowest_point < ground_y
        THEN [w EXCEPT !.sim.crashed = TRUE,
                       !.sim.run = FALSE,
                       !.ui.crash_message = "shown",
                       !.ui.continue_buttons = @ + 1]
        ELSE w

\* check_ground_collision(self)
check_ground_collision(w) ==
    LET aircraft_lowest_point == w.plane.y - 1
    IN  IF aircraft_lowest_point <= ground_y
        THEN [w EXCEPT !.sim.crashed = TRUE,
                       !.sim.run = FALSE,
                       !.ui.crash_message = "shown",
                       !.ui.continue_buttons = @ + 1]
        ELSE w

\* g_force of update_data: ((v[-1] - v[-2]) / dt) / 9.81
GForce(velocity_data) ==
    IF velocity_data.len > 1
    THEN ((((velocity_data.tail[2] - velocity_data.tail[1]) * Scale) \div dt) * 100)
           \div 981
    ELSE 0

\* the telemetry with no g-force entry for the first sample
update_data_sparse(w) ==
    LET s == w.sim
        velocity == ListAppend(s.velocity_data, Airspeed(s))
    IN  [w EXCEPT !.sim.time_data = ListAppend(@, s.flight_time),
                  !.sim.aoa_data = ListAppend(@, VerticalSpeed(s)),
                  !.sim.velocity_data = velocity,
                  !.sim.gforce_data =
                      IF velocity.len > 1 THEN ListAppend(@, GForce(velocity))
                      ELSE @,
                  !.sim.altitude_data = ListAppend(@, w.plane.y - ground_y)]

\* update_data(self)
update_data(w) ==
    LET s == w.sim
        velocity == ListAppend(s.velocity_data, Airspeed(s))
    IN  [w EXCEPT !.sim.time_data = ListAppend(@, s.flight_time),
                  !.sim.aoa_data = ListAppend(@, VerticalSpeed(s)),
                  !.sim.velocity_data = velocity,
                  !.sim.gforce_data = ListAppend(@, GForce(velocity)),
                  !.sim.altitude_data = ListAppend(@, w.plane.y - ground_y)]

\* required_minutes of PostFlight.__init__, Python's index i at i + 1
required_minutes == <<0, 2, 4, 7, 10, 13, 16, 19, 22, 25>>

\* UserManager.update_level(self, user_id, new_level): the level stored
update_level(new_level) ==
    IF new_level < 1 THEN 1
    ELSE IF new_level > 10 THEN 10
    ELSE new_level

\* UserManager.update_flight_minutes(self, user_id, minutes_to_add), from
\* current_minutes: the new total
update_flight_minutes(current_minutes, minutes_to_add) ==
    current_minutes + minutes_to_add

\* PostFlight.__init__ for current_user = user and the globals flight_time
\* and crashed: the user afterwards, what was decided, the index of the
\* "minutes to next level" lookup (-1 when there is none) and whether the
\* lookup raised IndexError.  Minutes are in units of 1/Scale
PostFlight(user, flight_time, crashed) ==
    LET minutes_to_add == flight_time \div 60
        new_total_minutes ==
            update_flight_minutes(user.flight_minutes, minutes_to_add)
        next_level == user.level + 1
        level_down == crashed /\ user.level > 1
        level_up ==
            /\ ~level_down
            /\ ~crashed /\ minutes_to_add >= Scale
            /\ next_level <= 10
            /\ new_total_minutes >= required_minutes[next_level] * Scale
        new_level ==
            IF level_down THEN update_level(user.level - 1)
            ELSE IF level_up THEN update_level(next_level)
            ELSE user.level
        index == IF level_up \/ level_down THEN -1 ELSE new_level
    IN  [level |-> new_level,
         flight_minutes |-> new_total_minutes,
         level_up |-> level_up,
         level_down |-> level_down,
         index |-> index,
         raised |-> index >= Len(required_minutes)]

\* end_simulation(self): the globals are set, the entities destroyed (destroy
\* skips an entity that is already destroyed) and a PostFlight is created
end_simulation(w) ==
    LET post == PostFlight(w.session, w.sim.flight_time, w.sim.crashed)
    IN
    [w EXCEPT !.session.flight_time = w.sim.flight_time,
              !.session.crashed = w.sim.crashed,
              !.session.postflights = @ + 1,
              !.session.level = post.level,
              !.session.flight_minutes = post.flight_minutes,
              !.phase = IF post.raised THEN "raised" ELSE @,
              !.plane.alive = FALSE,
              !.ui.input_handler = FALSE,
              !.ui.menu_panel = FALSE,
              !.ui.crash_message =
                  IF @ = "shown" THEN "destroyed" ELSE @,
              !.ui.continue_buttons =
                  IF w.ui.crash_message = "shown" THEN @ - 1 ELSE @]

\* the frame with the pose computed from the state vectors of the frame before
update_stale_pose(w, held, dy) ==
    IF ~w.sim.run THEN w
    ELSE
      LET timed == [w.sim EXCEPT !.flight_time = @ + dt]
          sv == update_state_vectors(update_control_inputs(timed, held))
      IN  IF sv.raised \/ PlaneRaises(sv.sim, w.plane)
          THEN [w EXCEPT !.sim = sv.sim, !.phase = "raised"]
          ELSE
            LET moved == [w EXCEPT !.sim = sv.sim,
                                   !.plane = update_plane(w.sim, w.plane, dy)]
                logged == update_data(check_ground_collision(moved))
            IN  IF logged.sim.flight_time > FlightCap * Scale
                THEN end_simulation([logged EXCEPT !.sim.run = FALSE])
                ELSE logged

\* update(self) with held_keys = held, the plane moving by dy when it moves
update(w, held, dy) ==
    IF ~w.sim.run THEN w
    ELSE
      LET timed == [w.sim EXCEPT !.flight_time = @ + dt]
          sv == update_state_vectors(update_control_inputs(timed, held))
      IN  IF sv.raised \/ PlaneRaises(sv.sim, w.plane)
          THEN [w EXCEPT !.sim = sv.sim, !.phase = "raised"]
          ELSE
            LET moved == [w EXCEPT !.sim = sv.sim,
                                   !.plane = update_plane(sv.sim, w.plane, dy)]
                logged == update_data(check_ground_collision(moved))
            IN  IF logged.sim.flight_time > FlightCap * Scale
                THEN end_simulation([logged EXCEPT !.sim.run = FALSE])
                ELSE logged

(***************************************************************************)
(* FlightSimulator: pause menu and buttons                                 *)
(***************************************************************************)

\* the toggle that shows and hides the menu without pausing the flight
toggle_menu_unpaused(w) ==
    LET active == ~w.sim.menu_active
    IN  [w EXCEPT !.sim.menu_active = active,
                  !.ui.menu_enabled = active]

\* toggle_menu(self)
toggle_menu(w) ==
    LET active == ~w.sim.menu_active
    IN  [w EXCEPT !.sim.menu_active = active,
                  !.ui.menu_enabled = active,
                  !.sim.run = ~active]

\* handle_input(self, key)
handle_input(w, key) == IF key = "escape" THEN toggle_menu(w) ELSE w

\* resume_game(self)
resume_game(w) ==
    [w EXCEPT !.sim.menu_active = FALSE,
              !.ui.menu_enabled = FALSE,
              !.sim.run = TRUE]

\* exit_game(self)
exit_game(w) == end_simulation([w EXCEPT !.sim.run = FALSE])

(***************************************************************************)
(* Matrix files and starting points                                        *)
(***************************************************************************)

\* a file of zeros with the shapes the loop needs: A 4x4, B 4x1, C 4x4, D 4x2
InertFile ==
    << <<0, 0, 0, 0>>, <<0, 0, 0, 0>>, <<0, 0, 0, 0>>, <<0, 0, 0, 0>>,
       <<0>>, <<0>>, <<0>>, <<0>>,
       <<0, 0, 0, 0>>, <<0, 0, 0, 0>>, <<0, 0, 0, 0>>, <<0, 0, 0, 0>>,
       <<0, 0>>, <<0, 0>>, <<0, 0>>, <<0, 0>> >>

\* a damped aircraft with cruise speed A[1][2] = 50: the elevator drives the
\* velocity, the angle of attack and the pitch rate, the aileron the roll
\* rate and through it the roll angle, the rudder the yaw angle
CruiseFile ==
    << <<-1, 0, 0, 0>>, <<0, -1, 50, 0>>, <<0, 0, 0, 0>>, <<0, 0, 0, -1>>,
       <<1>>, <<1>>, <<0>>, <<1>>,
       <<-1, 0, 0, 0>>, <<0, -1, 0, 0>>, <<0, 0, -1, 0>>, <<0, 1, 0, -1>>,
       <<0, 0>>, <<1, 0>>, <<0, 1>>, <<0, 0>> >>

\* sixteen rows of four numbers: B and D come out 4x4
SquareFile ==
    [r \in 1..16 |-> IF r = 2 THEN <<0, 0, 50, 0>> ELSE <<0, 0, 0, 0>>]

\* a file that stops after B: C and D come out empty
ShortFile == Slice(InertFile, 0, 8)

\* a well-shaped file that ends with a newline: the last row is empty
TrailingNewlineFile == Append(InertFile, <<>>)

\* a file whose first row has two numbers and whose other rows are as needed
RaggedFile == [InertFile EXCEPT ![1] = <<0, 0>>]

\* frames a flight is advanced by before the model explores it
NoFrames == 0

\* holding "w" this long brings the elevator just under the maximum
ClimbFrames == 99

\* this many frames bring flight_time just under the duration cap
LongFrames == 7197

\* the flights the model explores: a matrix file, and the frames already
\* flown with the keys of `held` held throughout
Starts ==
    {[text |-> InertFile, frames |-> NoFrames, held |-> {}],
     [text |-> CruiseFile, frames |-> NoFrames, held |-> {}],
     [text |-> InertFile, frames |-> ClimbFrames, held |-> {"w"}],
     [text |-> InertFile, frames |-> LongFrames, held |-> {}],
     [text |-> SquareFile, frames |-> NoFrames, held |-> {}],
     [text |-> ShortFile, frames |-> NoFrames, held |-> {}],
     [text |-> TrailingNewlineFile, frames |-> NoFrames, held |-> {}],
     [text |-> RaggedFile, frames |-> NoFrames, held |-> {}]}

RECURSIVE Frames(_, _, _)
\* n consecutive calls of update with the same keys held and no event
\* between them, the plane keeping its height
Frames(w, n, held) ==
    IF n = 0 THEN w
    ELSE IF n = 1 THEN update(w, held, 0)
    ELSE LET half == Frames(w, n \div 2, held)
         IN  IF half.phase = "failed" THEN half
             ELSE Frames(half, n - (n \div 2), held)

\* running frames explored from each starting point
MaxTicks == 2

\* PostFlight screens one flight may create before the model stops counting
MaxEnds == 2

\* the sets of held keys a frame may sample: none, each key of the elevator
\* alone, one key of each other axis, both keys of an axis, one key of every
\* axis
KeySets ==
    {{}, {"w"}, {"s"}, {"e"}, {"a"}, {"w", "s"}, {"w", "e", "a"},
     {"s", "q", "d"}}

(***************************************************************************)
(* The Matrix operations on their own                                      *)
(***************************************************************************)

NoResult == [tag |-> "none"]

\* no operation applied yet to the operands a and b
Operands(a, b) == [op |-> "none", a |-> a, b |-> b, y |-> 0, x |-> 0,
                   result |-> NoResult]

IdleLab == Operands(Matrix(<<>>), Matrix(<<>>))

\* the elements the operand matrices are made of
LabValues == {-1, 0, 2}

\* the sizes of the square matrices whose determinant is taken
DetSizes == 1..4

\* the heights and widths of the operands of + and *
PairSizes == 1..2

\* entries of a base matrix that an operand may differ in
MaxEdits == 1

ZeroMatrix(h, w) == Matrix([i \in 1..h |-> [j \in 1..w |-> 0]])

Identity(n) ==
    Matrix([i \in 1..n |-> [j \in 1..n |-> IF i = j THEN 1 ELSE 0]])

\* a dense matrix that is not symmetric
Ramp(n) == Matrix([i \in 1..n |-> [j \in 1..n |-> ((2 * i + j) % 3) - 1]])

RECURSIVE Edits(_, _)
\* the matrices that differ from m in at most k entries
Edits(m, k) ==
    IF k = 0 THEN {m}
    ELSE LET prev == Edits(m, k - 1)
         IN  prev \cup
             {Matrix([p.data EXCEPT ![i][j] = v]) :
                 p \in prev, i \in 1..m.height, j \in 1..m.width,
                 v \in LabValues}

\* the square operands: the zero matrix, the identity and a dense matrix of
\* each size, and the matrices within MaxEdits entries of one of them
SquareMatrices ==
    UNION {Edits(ZeroMatrix(n, n), MaxEdits) \cup Edits(Identity(n), MaxEdits)
             \cup Edits(Ramp(n), MaxEdits) : n \in DetSizes}

\* every matrix of the pair sizes over vals
SmallMatrices(vals) ==
    UNION {{Matrix(d) : d \in [1..h -> [1..w -> vals]]} :
             h \in PairSizes, w \in PairSizes}

\* the scalar operands of *
LabScalars == {Num(k) : k \in LabValues}

(***************************************************************************)
(* Actions of a flight                                                     *)
(***************************************************************************)

SetWorld(w) ==
    /\ sim' = w.sim
    /\ plane' = w.plane
    /\ ui' = w.ui
    /\ session' = w.session
    /\ phase' = w.phase

Init ==
    \E start \in Starts :
        LET w == Frames(Construct(start.text), start.frames, start.held)
        IN  /\ sim = w.sim
            /\ plane = w.plane
            /\ ui = w.ui
            /\ session = w.session
            /\ phase = w.phase
            /\ held_keys = start.held
            /\ budget = MaxTicks
            /\ lab = IdleLab

\* the engine calls update for one frame, with some keys held
Tick ==
    /\ phase = "flying"
    /\ sim.run => budget > 0
    /\ \E held \in KeySets, dy \in DyChoices :
          /\ SetWorld(update(World, held, dy))
          /\ held_keys' = held
    /\ budget' = IF sim.run THEN budget - 1 ELSE budget
    /\ UNCHANGED lab

\* the escape key reaches the input handler
Escape ==
    /\ phase = "flying"
    /\ ui.input_handler
    /\ SetWorld(handle_input(World, "escape"))
    /\ UNCHANGED <<held_keys, budget, lab>>

\* a click on Resume Flight, which the open pause menu shows
Resume ==
    /\ phase = "flying"
    /\ ui.menu_panel /\ ui.menu_enabled
    /\ SetWorld(resume_game(World))
    /\ UNCHANGED <<held_keys, budget, lab>>

\* a click on End Flight, which the open pause menu shows
EndFlight ==
    /\ phase = "flying"
    /\ ui.menu_panel /\ ui.menu_enabled
    /\ session.postflights < MaxEnds
    /\ SetWorld(exit_game(World))
    /\ UNCHANGED <<held_keys, budget, lab>>

\* a click on a Continue to Analysis button that a crash has left on screen
Continue ==
    /\ phase = "flying"
    /\ ui.continue_buttons > 0
    /\ session.postflights < MaxEnds
    /\ SetWorld(end_simulation(World))
    /\ UNCHANGED <<held_keys, budget, lab>>

Next == Tick \/ Escape \/ Resume \/ EndFlight \/ Continue

Spec == Init /\ [][Next]_vars

(***************************************************************************)
(* Actions on the Matrix operands                                          *)
(***************************************************************************)

\* the flight attributes while only Matrix operations are applied
IdleFlight ==
    LET w == Construct(InertFile)
    IN  /\ sim = w.sim
        /\ plane = w.plane
        /\ ui = w.ui
        /\ session = w.session
        /\ phase = w.phase
        /\ held_keys = {}
        /\ budget = 0

\* lab.a.det()
LabDet ==
    /\ lab' = [lab EXCEPT !.op = "det", !.result = det(lab.a)]
    /\ UNCHANGED flightVars

\* lab.a.sub(y, x)
LabSub ==
    /\ \E y \in 0..(lab.a.width - 1), x \in 0..(lab.a.height - 1) :
          lab' = [lab EXCEPT !.op = "sub", !.y = y, !.x = x,
                             !.result = sub(lab.a, y, x)]
    /\ UNCHANGED flightVars

\* lab.a + lab.b
LabAdd ==
    /\ lab' = [lab EXCEPT !.op = "add", !.result = PyAdd(lab.a, lab.b)]
    /\ UNCHANGED flightVars

\* lab.a * lab.b
LabMul ==
    /\ lab' = [lab EXCEPT !.op = "mul", !.result = PyMul(lab.a, lab.b)]
    /\ UNCHANGED flightVars

\* lab.b * lab.a for a scalar lab.b
LabRMul ==
    /\ IsNum(lab.b)
    /\ lab' = [lab EXCEPT !.op = "rmul", !.result = PyMul(lab.b, lab.a)]
    /\ UNCHANGED flightVars

\* the str or the number that the latest operation returned becomes the
\* second operand of the next one
LabFeed ==
    /\ lab.result.tag \in {"str", "num"}
    /\ lab' = [lab EXCEPT !.op = "none", !.b = lab.result, !.result = NoResult]
    /\ UNCHANGED flightVars

InitDet ==
    /\ IdleFlight
    /\ \E a \in SquareMatrices : lab = Operands(a, Matrix(<<>>))

NextDet == LabDet \/ LabSub

\* determinants and submatrices of square matrices
SpecDet == InitDet /\ [][NextDet]_vars

InitMatrix ==
    /\ IdleFlight
    /\ \E a \in SmallMatrices(LabValues),
          b \in SmallMatrices({0, 1}) \cup LabScalars :
          lab = Operands(a, b)

NextMatrix == LabDet \/ LabAdd \/ LabMul \/ LabRMul \/ LabFeed

\* determinant, + and * on pairs of small operands
SpecMatrix == InitMatrix /\ [][NextMatrix]_vars

\* three operands, and the two values that an identity compares
Triple(a, b, c) == [op |-> "none", a |-> a, b |-> b, c |-> c, y |-> 0, x |-> 0,
                    result |-> NoResult, other |-> NoResult]

\* lab.a + lab.b and lab.b + lab.a
LabAddBothWays ==
    /\ lab' = [lab EXCEPT !.op = "add_both_ways",
                          !.result = PyAdd(lab.a, lab.b),
                          !.other = PyAdd(lab.b, lab.a)]
    /\ UNCHANGED flightVars

\* (lab.a + lab.b) + lab.c and lab.a + (lab.b + lab.c)
LabAddGrouped ==
    /\ lab' = [lab EXCEPT !.op = "add_grouped",
                          !.result = PyAdd(PyAdd(lab.a, lab.b), lab.c),
                          !.other = PyAdd(lab.a, PyAdd(lab.b, lab.c))]
    /\ UNCHANGED flightVars

\* (lab.a * lab.b) * lab.c and lab.a * (lab.b * lab.c)
LabMulGrouped ==
    /\ lab' = [lab EXCEPT !.op = "mul_grouped",
                          !.result = PyMul(PyMul(lab.a, lab.b), lab.c),
                          !.other = PyMul(lab.a, PyMul(lab.b, lab.c))]
    /\ UNCHANGED flightVars

\* lab.a * I for the identity I of lab.a's width
LabMulIdentity ==
    /\ lab' = [lab EXCEPT !.op = "mul_identity",
                          !.result = PyMul(lab.a, Identity(lab.a.width)),
                          !.other = lab.a]
    /\ UNCHANGED flightVars

InitAlgebra ==
    /\ IdleFlight
    /\ \E a \in SmallMatrices(LabValues), b \in SmallMatrices({0, 1}),
          c \in SmallMatrices({-1, 2}) :
          lab = Triple(a, b, c)

NextAlgebra == LabAddBothWays \/ LabAddGrouped \/ LabMulGrouped \/ LabMulIdentity

\* sums and products of three small operands, grouped both ways
SpecAlgebra == InitAlgebra /\ [][NextAlgebra]_vars

(***************************************************************************)
(* Matrix objects and the lists behind them                                *)
(***************************************************************************)

\* Python lists live in a heap, a sequence of lists addressed from 1: the
\* data of a Matrix is the address of a list of addresses of row lists

\* the most operations and element writes in a run
MaxSteps == 2

\* the lists of a matrix built as a list comprehension of rows: a new outer
\* list and a new list per row
Literal(heap, rows) ==
    LET n == Len(heap)
    IN  [heap |-> heap \o << [i \in 1..Len(rows) |-> n + 1 + i] >> \o rows,
         data |-> n + 1]

\* result = [] ... row = [] ... row.append(v) ... result.append(row), with
\* the rows interned: a row list equal to one in the heap is that list
BuildInterned(heap, rows) ==
    LET n == Len(heap)
        Known(i) == {p \in 1..n : heap[p] = rows[i]}
    IN  [heap |-> heap \o << [i \in 1..Len(rows) |->
                                IF Known(i) # {} THEN CHOOSE p \in Known(i) : TRUE
                                ELSE n + 1 + i] >> \o rows,
         data |-> n + 1]

\* result = [] ... row = [] ... row.append(v) ... result.append(row): the
\* lists that sub, __add__ and __mul__ fill for the Matrix they return
Build(heap, rows) == Literal(heap, rows)

\* Matrix.__init__(self, data) for the list at address data: the list is
\* kept, not copied
MatrixAt(heap, data) ==
    [data |-> data,
     height |-> Len(heap[data]),
     width |-> IF Len(heap[data]) > 0 THEN Len(heap[heap[data][1]]) ELSE 0]

\* the Matrix as its methods read it: self.data[i][j] through the heap,
\* self.height and self.width as cached
View(heap, m) ==
    [tag |-> "Matrix",
     data |-> [i \in 1..Len(heap[m.data]) |-> heap[heap[m.data][i]]],
     height |-> m.height,
     width |-> m.width]

\* the addresses of the lists behind m: its outer list and its row lists
Lists(heap, m) ==
    {m.data} \cup {heap[m.data][i] : i \in 1..Len(heap[m.data])}

\* the pairs of matrices the heap runs start from
HeapOperands ==
    {<< << <<1, 2>>, <<3, 4>> >>, << <<0, 1>>, <<1, 0>> >> >>,
     << << <<1, 2>> >>, << <<2>>, <<-1>> >> >>,
     << << <<1, 2>>, <<3, 4>> >>, << <<2>>, <<-1>> >> >>}

HeapScalars == {Num(1)}

\* the values written by m.getmatrix()[i][j] = v
WrittenValues == {7}

\* two matrices constructed from two list literals
Pool(a, b) ==
    LET first == Literal(<<>>, a)
        second == Literal(first.heap, b)
    IN  [op |-> "none",
         heap |-> second.heap,
         mats |-> <<MatrixAt(second.heap, first.data),
                    MatrixAt(second.heap, second.data)>>,
         made |-> 0, target |-> 0, steps |-> 0, result |-> NoResult]

\* the pool after an operation returned the value r: a Matrix gets new
\* lists and joins the pool, a str or a number is only recorded
Returned(l, op, r) ==
    IF IsMatrix(r)
    THEN LET built == Build(l.heap, r.data)
         IN  [l EXCEPT !.op = op,
                       !.heap = built.heap,
                       !.mats = Append(@, MatrixAt(built.heap, built.data)),
                       !.made = Len(l.mats) + 1,
                       !.target = 0,
                       !.steps = @ + 1,
                       !.result = NoResult]
    ELSE [l EXCEPT !.op = op, !.made = 0, !.target = 0, !.steps = @ + 1,
                   !.result = r]

\* lab.mats[k].sub(y, x)
HeapSub ==
    /\ lab.steps < MaxSteps
    /\ \E k \in 1..Len(lab.mats) :
          \E y \in 0..(lab.mats[k].width - 1), x \in 0..(lab.mats[k].height - 1) :
             lab' = Returned(lab, "sub", sub(View(lab.heap, lab.mats[k]), y, x))
    /\ UNCHANGED flightVars

\* lab.mats[k].det(); the submatrices it builds on the way are dropped
\* before it returns
HeapDet ==
    /\ lab.steps < MaxSteps
    /\ \E k \in 1..Len(lab.mats) :
          lab' = Returned(lab, "det", det(View(lab.heap, lab.mats[k])))
    /\ UNCHANGED flightVars

\* lab.mats[k] + lab.mats[n]
HeapAdd ==
    /\ lab.steps < MaxSteps
    /\ \E k \in 1..Len(lab.mats), n \in 1..Len(lab.mats) :
          lab' = Returned(lab, "add", add(View(lab.heap, lab.mats[k]),
                                          View(lab.heap, lab.mats[n])))
    /\ UNCHANGED flightVars

\* lab.mats[k] * lab.mats[n], and lab.mats[k] * scalar
HeapMul ==
    /\ lab.steps < MaxSteps
    /\ \E k \in 1..Len(lab.mats) :
          \/ \E n \in 1..Len(lab.mats) :
                lab' = Returned(lab, "mul", mul(View(lab.heap, lab.mats[k]),
                                                View(lab.heap, lab.mats[n])))
          \/ \E scalar \in HeapScalars :
                lab' = Returned(lab, "mul",
                                mul(View(lab.heap, lab.mats[k]), scalar))
    /\ UNCHANGED flightVars

\* lab.mats[k].getmatrix()[i][j] = v
HeapWrite ==
    /\ lab.steps < MaxSteps
    /\ \E k \in 1..Len(lab.mats) :
          \E i \in 1..lab.mats[k].height, j \in 1..lab.mats[k].width,
             v \in WrittenValues :
             lab' = [lab EXCEPT
                       !.op = "write",
                       !.heap[lab.heap[lab.mats[k].data][i]][j] = v,
                       !.made = 0,
                       !.target = k,
                       !.steps = @ + 1,
                       !.result = NoResult]
    /\ UNCHANGED flightVars

InitHeap ==
    /\ IdleFlight
    /\ \E pair \in HeapOperands : lab = Pool(pair[1], pair[2])

NextHeap == HeapSub \/ HeapDet \/ HeapAdd \/ HeapMul \/ HeapWrite

\* Matrix operations and element writes on matrices that live in a heap
SpecHeap == InitHeap /\ [][NextHeap]_vars

(***************************************************************************)
(* PostFlight on its own: a pilot's flights one after another              *)
(***************************************************************************)

\* flights of one pilot
MaxFlights == 2

\* the flight times PostFlight is given: half a minute, a minute, and the
\* first time past the duration cap
FlightTimes == {30 * Scale, 60 * Scale, FlightCap * Scale + dt}

\* the user records a pilot of a level starts with: the minutes of the
\* level's threshold, or half a minute short of the next threshold
Records ==
    {[level |-> l, flight_minutes |-> required_minutes[l] * Scale] : l \in 1..10}
    \cup
    {[level |-> l,
      flight_minutes |->
          required_minutes[IF l < 10 THEN l + 1 ELSE l] * Scale - Scale \div 2] :
        l \in 1..10}

\* a pilot who has not flown yet
Career(user) ==
    [user |-> user, before |-> user, flights |-> 0,
     flight_time |-> 0, crashed |-> FALSE,
     post |-> [level |-> user.level, flight_minutes |-> user.flight_minutes,
               level_up |-> FALSE, level_down |-> FALSE, index |-> -1,
               raised |-> FALSE]]

\* a flight ends and PostFlight() processes it
Fly ==
    /\ lab.flights < MaxFlights
    /\ ~lab.post.raised
    /\ \E flight_time \in FlightTimes, crashed \in BOOLEAN :
          LET post == PostFlight(lab.user, flight_time, crashed)
          IN  lab' = [user |-> [level |-> post.level,
                                flight_minutes |-> post.flight_minutes],
                      before |-> lab.user,
                      flights |-> lab.flights + 1,
                      flight_time |-> flight_time,
                      crashed |-> crashed,
                      post |-> post]
    /\ UNCHANGED flightVars

InitPostFlight ==
    /\ IdleFlight
    /\ \E user \in Records : lab = Career(user)

NextPostFlight == Fly

\* the flights of one pilot, each processed by one PostFlight
SpecPostFlight == InitPostFlight /\ [][NextPostFlight]_vars

(***************************************************************************)
(* Released controls: frames in which no elevator or aileron key is held   *)
(***************************************************************************)

\* frames a key is held for the control to reach its limit
FullFrames == 100

\* frames that run after the keys are released
ReleaseFrames == 64

\* the flights the keys are released in: controls at rest, one frame from
\* rest, near the limit and at the limit, on either side of 0
ReleaseStarts ==
    {[frames |-> NoFrames, held |-> {}],
     [frames |-> 1, held |-> {"w", "q"}],
     [frames |-> ClimbFrames, held |-> {"w", "e", "a"}],
     [frames |-> FullFrames, held |-> {"s", "q", "d"}]}

\* the keys a frame may sample after the release: only those of the rudder
ReleaseKeySets == {{}, {"a"}}

InitRelease ==
    \E start \in ReleaseStarts :
        LET w == Frames(Construct(InertFile), start.frames, start.held)
        IN  /\ sim = w.sim
            /\ plane = w.plane
            /\ ui = w.ui
            /\ session = w.session
            /\ phase = w.phase
            /\ held_keys = start.held
            /\ budget = ReleaseFrames
            /\ lab = IdleLab

\* the engine calls update for one frame with no elevator or aileron key held
ReleasedFrame ==
    /\ phase = "flying"
    /\ sim.run
    /\ budget > 0
    /\ \E held \in ReleaseKeySets :
          /\ SetWorld(update(World, held, 0))
          /\ held_keys' = held
    /\ budget' = budget - 1
    /\ UNCHANGED lab

NextRelease == ReleasedFrame

\* a frame is due: the step in which the engine calls update for a running
\* flight, told by the frames that remain
FrameDue ==
    /\ phase = "flying"
    /\ sim.run
    /\ budget > 0
    /\ budget' = budget - 1

\* the engine keeps calling update while the flight runs
SpecRelease == InitRelease /\ [][NextRelease]_vars /\ WF_budget(FrameDue)

(***************************************************************************)
(* Properties                                                              *)
(***************************************************************************)

\* a step in which update ran its body: the flight timer advanced
FrameRan == sim'.flight_time # sim.flight_time

\* a frame that ran to the end of update
FrameCompleted == FrameRan /\ phase' = "flying"

CapTime == FlightCap * Scale

\* what a halted flight is said to keep
FlightCore ==
    <<sim.state_long, sim.state_lat, sim.elevator, sim.aileron, sim.rudder,
      sim.flight_time, plane.y, sim.time_data, sim.aoa_data,
      sim.velocity_data, sim.gforce_data, sim.altitude_data>>

\* C1: once the flight is halted by a terminal condition (it has crashed, or
\* its time is over the cap, and run is False), no later frame, escape press
\* or click makes run True again.
C1_HaltedNeverRunsAgain ==
    [][(~sim.run /\ (sim.crashed \/ sim.flight_time > CapTime)) => ~sim'.run]_vars

\* the mathematical minor: m without row `row` and column `col` (from 1)
Minor(m, row, col) ==
    Matrix([i \in 1..(m.height - 1) |->
              [j \in 1..(m.width - 1) |->
                 m.data[IF i < row THEN i ELSE i + 1]
                       [IF j < col THEN j ELSE j + 1]]])

RECURSIVE Determinant(_)
RECURSIVE Expansion(_, _)
\* the first n terms of the Laplace expansion of m along its first row
Expansion(m, n) ==
    IF n = 0 THEN 0
    ELSE Expansion(m, n - 1)
         + Sign(n - 1) * m.data[1][n] * Determinant(Minor(m, 1, n))

\* the determinant of a square matrix
Determinant(m) ==
    IF m.height = 1 THEN m.data[1][1] ELSE Expansion(m, m.height)

\* C2: for every square matrix of size 1 to 4, det() returns the mathematical
\* determinant (the Laplace expansion along the first row over the minors
\* that delete row 0 and column i).
C2_DetIsDeterminant ==
    lab.op = "det" => lab.result = Num(Determinant(lab.a))

\* C3: each of the three control values stays within [-maximum, maximum].
C3_ControlsWithinMax ==
    phase # "failed" =>
        \A c \in {sim.elevator, sim.aileron, sim.rudder} :
            Abs(c) <= maximum * Scale

\* C4: once the constructor has succeeded, no frame raises.
C4_NoFrameRaises == phase # "raised"

\* the shapes the loop needs: A 4x4, B 4x1, C 4x4, D 4x2
HasShape(m, h, w) ==
    m.height = h /\ m.width = w /\ \A i \in 1..h : Len(m.data[i]) = w

\* C5: construction fails unless the file yields A 4x4, B 4x1, C 4x4 and a D
\* that multiplies the 2x1 control vector into a 4x1 result.
C5_MalformedFileRejected ==
    phase # "failed" =>
        /\ HasShape(sim.A, 4, 4)
        /\ HasShape(sim.B, 4, 1)
        /\ HasShape(sim.C, 4, 4)
        /\ HasShape(sim.D, 4, 2)

\* C6: on mismatched shapes +, * and det() end in the error outcome, never in
\* a Matrix or a number, and an operation that is handed an error outcome as
\* its operand does not return a Matrix or a number either.
C6_ShapeErrorsStayErrors ==
    /\ (lab.op = "add" /\ IsMatrix(lab.b)
          /\ (lab.a.height # lab.b.height \/ lab.a.width # lab.b.width))
       => IsStr(lab.result)
    /\ (lab.op = "mul" /\ IsMatrix(lab.b) /\ lab.a.width # lab.b.height)
       => IsStr(lab.result)
    /\ (lab.op = "det" /\ lab.a.height # lab.a.width) => IsStr(lab.result)
    /\ (lab.op \in {"add", "mul"} /\ IsStr(lab.b))
       => ~(IsMatrix(lab.result) \/ IsNum(lab.result))

\* C7: the frame that crashes the plane leaves run False, and from then on
\* no step changes the state vectors, the controls, the flight timer, the
\* height of the plane or the telemetry.
C7_CrashFreezesFlight ==
    [][/\ (~sim.crashed /\ sim'.crashed) => ~sim'.run
       /\ sim.crashed => FlightCore' = FlightCore]_vars

\* C8: the flight timer advances only in a frame of a flight that is running,
\* not paused and not halted, and then by dt; it never exceeds the cap by
\* more than dt; and the frame that takes it over the cap halts and ends the
\* flight.
C8_DurationCap ==
    [][/\ FrameRan =>
            /\ sim.run /\ ~sim.menu_active /\ ~sim.crashed
            /\ sim'.flight_time = sim.flight_time + dt
       /\ sim'.flight_time <= CapTime + dt
       /\ (sim.flight_time <= CapTime /\ sim'.flight_time > CapTime) =>
            (~sim'.run /\ session'.postflights = session.postflights + 1)]_vars

\* Continue buttons (and crash messages) that the step created
NewCrashNotices ==
    ui'.continue_buttons - ui.continue_buttons
      + (IF ui'.crash_message = "destroyed" /\ ui.crash_message # "destroyed"
         THEN 1 ELSE 0)

\* C9, as claimed: a frame declares a ground collision exactly when the
\* height of the plane after the frame is at or below ground_y.
C9_CollisionAtGroundAltitude ==
    [][FrameCompleted => (NewCrashNotices = 1 <=> plane'.y <= ground_y)]_vars

\* C9, amended: a frame declares a ground collision (crashed, run False, a
\* crash message and a Continue button) exactly when the lowest point of the
\* plane, its height less the buffer of 1, is at or below ground_y after the
\* frame; otherwise it declares nothing and leaves crashed as it was.
C9_CollisionAtLowestPoint ==
    [][FrameCompleted =>
         /\ NewCrashNotices = 1 <=> plane'.y - 1 <= ground_y
         /\ NewCrashNotices \in {0, 1}
         /\ NewCrashNotices = 1 => (sim'.crashed /\ ~sim'.run)
         /\ NewCrashNotices = 0 => sim'.crashed = sim.crashed]_vars

\* a crash declared with the lowest point of the plane exactly at ground_y
C9_Witness ==
    sim.crashed /\ ui.continue_buttons = 1 /\ plane.y - 1 = ground_y

\* the three axes: the attribute and its two keys
Axes ==
    {[control |-> "elevator", increase_key |-> "w", decrease_key |-> "s"],
     [control |-> "aileron", increase_key |-> "e", decrease_key |-> "q"],
     [control |-> "rudder", increase_key |-> "a", decrease_key |-> "d"]}

\* C10: in a frame that samples neither key of an axis, a control of that
\* axis whose magnitude is under SnapFactor * dt becomes exactly 0, and a
\* control at 0 stays at 0.
C10_SpringBackSnaps ==
    [][FrameRan =>
         \A axis \in Axes :
            (/\ axis.increase_key \notin held_keys'
             /\ axis.decrease_key \notin held_keys'
             /\ Abs(sim[axis.control]) < SnapFactor * dt)
            => sim'[axis.control] = 0]_vars

\* the second frame of a flight sampled no key and left the elevator at 0,
\* after a first frame in which the elevator had moved the velocity state
C10_Witness ==
    /\ phase = "flying"
    /\ sim.flight_time = 2 * dt
    /\ held_keys = {}
    /\ sim.elevator = 0
    /\ At(sim.state_long, 0, 0) # 0

\* the control law as claimed: a step of InputRate * dt under a held key
\* within the limit, otherwise SpringRate * dt toward zero
ClaimedLaw(c, inc, dec) ==
    IF inc /\ c < maximum * Scale THEN c + InputRate * dt
    ELSE IF dec /\ c > -(maximum * Scale) THEN c - InputRate * dt
    ELSE IF c > 0 THEN c - SpringRate * dt
    ELSE IF c < 0 THEN c + SpringRate * dt
    ELSE c

\* the claimed law followed by the snap: with neither key held, a value
\* whose magnitude is then under SnapFactor * dt becomes 0
SnappedLaw(c, inc, dec) ==
    LET moved == ClaimedLaw(c, inc, dec)
    IN  IF ~inc /\ ~dec /\ Abs(moved) < SnapFactor * dt THEN 0 ELSE moved

\* C11, as claimed: in every frame each axis takes the value the control law
\* gives for its own previous value and its own two keys: up by 3 * dt,
\* down by 3 * dt, or 5 * dt toward zero.
C11_ControlLawPerAxis ==
    [][FrameRan =>
         \A axis \in Axes :
            sim'[axis.control] =
               ClaimedLaw(sim[axis.control],
                          axis.increase_key \in held_keys',
                          axis.decrease_key \in held_keys')]_vars

\* C11, amended: in every frame each axis takes the value that the control
\* law followed by the snap to zero gives for its own previous value and its
\* own two keys, whatever the other axes and keys are.
C11_ControlLawWithSnap ==
    [][FrameRan =>
         \A axis \in Axes :
            sim'[axis.control] =
               SnappedLaw(sim[axis.control],
                          axis.increase_key \in held_keys',
                          axis.decrease_key \in held_keys')]_vars

\* after 99 frames of 'w', a frame of 's', 'q' and 'd' has taken 3 * dt off
\* the elevator and moved the aileron and the rudder from 0 to -3 * dt
C11_Witness ==
    /\ held_keys = {"s", "q", "d"}
    /\ sim.elevator = (ClimbFrames - 1) * InputRate * dt
    /\ sim.aileron = -(InputRate * dt)
    /\ sim.rudder = -(InputRate * dt)

\* row i of the 4-column matrix m times the 4x1 vector v
RowTimesVector(m, i, v) ==
    m.data[i][1] * v.data[1][1] + m.data[i][2] * v.data[2][1]
      + m.data[i][3] * v.data[3][1] + m.data[i][4] * v.data[4][1]

\* state + (m * state + inputs) * dt for a 4x1 state and 4x1 inputs
EulerStep(state, m, inputs) ==
    Matrix([i \in 1..4 |->
              <<state.data[i][1]
                  + Rescale((RowTimesVector(m, i, state) + inputs[i]) * dt)>>])

\* C12: every frame of a running flight advances both state vectors by one
\* forward-Euler step with the controls as that frame has just updated them:
\* state_long by (A * state_long + B * elevator) * dt, B scaled by the
\* elevator, and state_lat by (C * state_lat + D * [aileron; rudder]) * dt,
\* D multiplied into the 2x1 control vector; both stay 4x1 matrices.
C12_ForwardEulerStep ==
    [][FrameRan =>
         /\ HasShape(sim.A, 4, 4) /\ HasShape(sim.B, 4, 1)
         /\ HasShape(sim.C, 4, 4) /\ HasShape(sim.D, 4, 2)
         /\ IsMatrix(sim'.state_long) /\ IsMatrix(sim'.state_lat)
         /\ sim'.state_long =
              EulerStep(sim.state_long, sim.A,
                        [i \in 1..4 |-> sim.B.data[i][1] * sim'.elevator])
         /\ sim'.state_lat =
              EulerStep(sim.state_lat, sim.C,
                        [i \in 1..4 |-> sim.D.data[i][1] * sim'.aileron
                                          + sim.D.data[i][2] * sim'.rudder])]_vars

\* the same step in the frames that start with matrices of the model's shapes
C12_WellShaped ==
    [][(FrameRan /\ HasShape(sim.A, 4, 4) /\ HasShape(sim.B, 4, 1)
          /\ HasShape(sim.C, 4, 4) /\ HasShape(sim.D, 4, 2)) =>
         /\ sim'.state_long =
              EulerStep(sim.state_long, sim.A,
                        [i \in 1..4 |-> sim.B.data[i][1] * sim'.elevator])
         /\ sim'.state_lat =
              EulerStep(sim.state_lat, sim.C,
                        [i \in 1..4 |-> sim.D.data[i][1] * sim'.aileron
                                          + sim.D.data[i][2] * sim'.rudder])]_vars

\* both state vectors are the 4x1 zero vector and the three controls are 0
AtRest ==
    /\ sim.state_long = ZeroState
    /\ sim.state_lat = ZeroState
    /\ sim.elevator = 0 /\ sim.aileron = 0 /\ sim.rudder = 0

\* C13: a frame that starts with both state vectors zero and all controls 0,
\* and samples no key, ends with both state vectors zero and all controls 0;
\* so any number of such frames from the initial state keeps them there.
C13_ZeroInputSteadyState ==
    [][(FrameRan /\ AtRest /\ held_keys' = {}) => AtRest']_vars

\* two frames into a flight whose A and B are not zero, still at rest
C13_Witness ==
    /\ phase = "flying"
    /\ sim.flight_time = 2 * dt
    /\ held_keys = {}
    /\ cruise_speed(sim) # 0
    /\ At(sim.B, 0, 0) # 0
    /\ AtRest

\* C14: sub called with a row index first and a column index second, both
\* in range, returns the (h-1) x (w-1) matrix that is the operand without
\* that row and that column, the other elements in their order.
C14_SubRemovesRowAndColumn ==
    lab.op = "sub" =>
        /\ IsMatrix(lab.result)
        /\ lab.result.height = lab.a.height - 1
        /\ lab.result = Minor(lab.a, lab.y + 1, lab.x + 1)

\* m is an h x w Matrix: h rows of w elements each
IsShaped(m, h, w) ==
    /\ IsMatrix(m)
    /\ m.height = h /\ m.width = w
    /\ Len(m.data) = h
    /\ \A i \in 1..h : Len(m.data[i]) = w

\* C15: the sum of two matrices of the same height and width is a matrix of
\* that height and width whose element [i][j] is a[i][j] + b[i][j].
C15_AddIsElementwise ==
    (/\ lab.op = "add" /\ IsMatrix(lab.b)
     /\ lab.a.height = lab.b.height /\ lab.a.width = lab.b.width)
    => /\ IsShaped(lab.result, lab.a.height, lab.a.width)
       /\ \A i \in 1..lab.a.height, j \in 1..lab.a.width :
             lab.result.data[i][j] = lab.a.data[i][j] + lab.b.data[i][j]

\* a 2x2 sum in which both operands contribute
C15_Witness ==
    /\ lab.op = "add"
    /\ lab.a = Matrix(<< <<2, -1>>, <<0, 2>> >>)
    /\ lab.b = Matrix(<< <<1, 1>>, <<0, 1>> >>)
    /\ lab.result = Matrix(<< <<3, 0>>, <<0, 3>> >>)

RECURSIVE SumOver(_, _)
\* the sum of f[k] for k in the finite set S
SumOver(f, S) ==
    IF S = {} THEN 0
    ELSE LET k == CHOOSE k \in S : TRUE
         IN  f[k] + SumOver(f, S \ {k})

\* C16: the product of an h x n matrix and an n x w matrix is an h x w
\* matrix whose element [i][j] is the sum over k of a[i][k] * b[k][j].
C16_MulIsRowByColumn ==
    (lab.op = "mul" /\ IsMatrix(lab.b) /\ lab.a.width = lab.b.height)
    => /\ IsShaped(lab.result, lab.a.height, lab.b.width)
       /\ \A i \in 1..lab.a.height, j \in 1..lab.b.width :
             lab.result.data[i][j] =
                SumOver([k \in 1..lab.a.width |->
                           lab.a.data[i][k] * lab.b.data[k][j]],
                        1..lab.a.width)

\* a 1x2 operand times a 2x1 operand: one element, the sum of two products
C16_Witness ==
    /\ lab.op = "mul"
    /\ lab.a = Matrix(<< <<2, -1>> >>)
    /\ lab.b = Matrix(<< <<1>>, <<1>> >>)
    /\ lab.result = Matrix(<< <<1>> >>)

\* a, b and c have one shape
SameShape(a, b, c) ==
    /\ a.height = b.height /\ a.width = b.width
    /\ b.height = c.height /\ b.width = c.width

\* C17: for matrices of one shape, a + b has the data of b + a, and
\* (a + b) + c has the data of a + (b + c).
C17_AddCommutesAndAssociates ==
    /\ (/\ lab.op = "add_both_ways"
        /\ lab.a.height = lab.b.height /\ lab.a.width = lab.b.width)
       => /\ IsShaped(lab.result, lab.a.height, lab.a.width)
          /\ IsMatrix(lab.other)
          /\ lab.result.data = lab.other.data
    /\ (lab.op = "add_grouped" /\ SameShape(lab.a, lab.b, lab.c))
       => /\ IsShaped(lab.result, lab.a.height, lab.a.width)
          /\ IsMatrix(lab.other)
          /\ lab.result.data = lab.other.data

\* three different 2x2 operands summed with either grouping
C17_Witness ==
    /\ lab.op = "add_grouped"
    /\ lab.a = Matrix(<< <<2, -1>>, <<0, 2>> >>)
    /\ lab.b = Matrix(<< <<1, 1>>, <<0, 1>> >>)
    /\ lab.c = Matrix(<< <<-1, 2>>, <<2, -1>> >>)
    /\ lab.other = Matrix(<< <<2, 2>>, <<2, 2>> >>)

\* C18: for a of h x n, b of n x m and c of m x w, (a * b) * c has the data
\* of a * (b * c); and a times the identity of a's width has the data of a.
C18_MulAssociatesWithRightUnit ==
    /\ (/\ lab.op = "mul_grouped"
        /\ lab.a.width = lab.b.height /\ lab.b.width = lab.c.height)
       => /\ IsShaped(lab.result, lab.a.height, lab.c.width)
          /\ IsMatrix(lab.other)
          /\ lab.result.data = lab.other.data
    /\ lab.op = "mul_identity"
       => /\ IsShaped(lab.result, lab.a.height, lab.a.width)
          /\ lab.result.data = lab.a.data

\* a 1x2, a 2x2 and a 2x1 operand multiplied with either grouping
C18_Witness ==
    /\ lab.op = "mul_grouped"
    /\ lab.a = Matrix(<< <<2, -1>> >>)
    /\ lab.b = Matrix(<< <<1, 1>>, <<0, 1>> >>)
    /\ lab.c = Matrix(<< <<-1>>, <<2>> >>)
    /\ lab.other = Matrix(<< <<0>> >>)

\* C19: for a matrix a and a scalar k, a * k and k * a are both the matrix of
\* a's shape whose element [i][j] is a[i][j] * k, so they have the same data.
C19_ScalarMulCommutes ==
    (lab.op \in {"mul", "rmul"} /\ IsNum(lab.b))
    => /\ IsShaped(lab.result, lab.a.height, lab.a.width)
       /\ \A i \in 1..lab.a.height, j \in 1..lab.a.width :
             lab.result.data[i][j] = lab.a.data[i][j] * lab.b.val

\* 2 * a for a 2x2 operand
C19_Witness ==
    /\ lab.op = "rmul"
    /\ lab.b = Num(2)
    /\ lab.a = Matrix(<< <<2, -1>>, <<0, 2>> >>)
    /\ lab.result = Matrix(<< <<4, -2>>, <<0, 4>> >>)

\* C20: sub, det, + and * leave the data, height and width of every Matrix
\* there is as they were; the lists of the Matrix they return (its outer list
\* and its rows, all distinct) belong to no other Matrix; and a write to an
\* element of one Matrix changes the data of no other.
C20_OperationsArePure ==
    [][/\ lab'.op \in {"sub", "det", "add", "mul"} =>
            \A k \in 1..Len(lab.mats) :
               /\ lab'.mats[k] = lab.mats[k]
               /\ View(lab'.heap, lab'.mats[k]) = View(lab.heap, lab.mats[k])
       /\ lab'.made # 0 =>
            /\ lab'.made = Len(lab.mats) + 1
            /\ Cardinality(Lists(lab'.heap, lab'.mats[lab'.made]))
                 = lab'.mats[lab'.made].height + 1
            /\ \A k \in 1..Len(lab.mats) :
                  Lists(lab'.heap, lab'.mats[k])
                    \cap Lists(lab'.heap, lab'.mats[lab'.made]) = {}
       /\ lab'.op = "write" =>
            \A k \in 1..Len(lab.mats) :
               k # lab'.target =>
                  View(lab'.heap, lab'.mats[k]) = View(lab.heap, lab.mats[k])]_vars

\* an element of a product by the scalar 1 was overwritten, and the operand
\* of the product still has its elements
C20_Witness ==
    /\ lab.op = "write"
    /\ Len(lab.mats) = 3
    /\ lab.target = 3
    /\ View(lab.heap, lab.mats[1]).data = << <<1, 2>>, <<3, 4>> >>
    /\ View(lab.heap, lab.mats[3]).data = << <<1, 2>>, <<7, 4>> >>

\* every row of m is as long as m.width, m.height is the number of rows, and
\* a matrix of no rows has width 0
Rectangular(m) ==
    /\ m.height = Len(m.data)
    /\ \A i \in 1..Len(m.data) : Len(m.data[i]) = m.width
    /\ m.height = 0 => m.width = 0

\* the flight's attributes that hold a Matrix
FlightMatrices ==
    {m \in {sim.A, sim.B, sim.C, sim.D, sim.state_long, sim.state_lat} :
        IsMatrix(m)}

\* C21: every Matrix constructed from a 2D list, or returned by an
\* operation, has rows as long as its width, as many rows as its height and
\* width 0 if it has no rows; and the height and the width of the loaded
\* matrices never change.
C21_MatrixShapeInvariant ==
    /\ \A m \in FlightMatrices : Rectangular(m)
    /\ (lab.op # "none" /\ IsMatrix(lab.result)) => Rectangular(lab.result)

\* C22: no frame, key press or click changes A, B, C or D: their data,
\* height and width stay as setup_physics loaded them.
C22_MatricesReadOnly ==
    [][/\ sim'.A = sim.A /\ sim'.B = sim.B
       /\ sim'.C = sim.C /\ sim'.D = sim.D]_vars

\* a flight that ran, crashed and ended still has the matrices of its file
C22_Witness ==
    /\ session.postflights = 1
    /\ sim.crashed
    /\ sim.flight_time = 2 * dt
    /\ sim.A = Matrix(Slice(CruiseFile, 0, 4))
    /\ sim.B = Matrix(Slice(CruiseFile, 4, 8))
    /\ sim.C = Matrix(Slice(CruiseFile, 8, 12))
    /\ sim.D = Matrix(Slice(CruiseFile, 12, 16))

\* the last entry of a telemetry list
Last(l) == l.tail[Len(l.tail)]

\* C23: a frame runs control update, integration, pose and collision check
\* in that order: the state vectors are stepped with the controls the frame
\* has just written, the pose comes from the state vectors it has just
\* written, and the collision check and the logged altitude read the height
\* it has just written.
C23_PhasesInOrder ==
    [][FrameCompleted =>
         /\ \A axis \in Axes :
               sim'[axis.control] =
                  SnappedLaw(sim[axis.control],
                             axis.increase_key \in held_keys',
                             axis.decrease_key \in held_keys')
         /\ sim'.state_long =
              EulerStep(sim.state_long, sim.A,
                        [i \in 1..4 |-> sim.B.data[i][1] * sim'.elevator])
         /\ sim'.state_lat =
              EulerStep(sim.state_lat, sim.C,
                        [i \in 1..4 |-> sim.D.data[i][1] * sim'.aileron
                                          + sim.D.data[i][2] * sim'.rudder])
         /\ plane'.level = (plane.level /\ AnglesZero(sim'))
         /\ (plane'.y - plane.y) \in Displacements(sim', plane'.level)
         /\ NewCrashNotices = 1 <=> plane'.y - 1 <= ground_y
         /\ Last(sim'.altitude_data) = plane'.y - ground_y
         /\ Last(sim'.velocity_data) = Airspeed(sim')]_vars

\* the first frame of a flight sampled the rudder key, which turned the
\* plane, which descended to the ground, which the same frame detected
C23_Witness ==
    /\ sim.flight_time = dt
    /\ held_keys = {"a"}
    /\ sim.rudder = InputRate * dt
    /\ At(sim.state_lat, 2, 0) # 0
    /\ ~plane.level
    /\ plane.y - 1 = ground_y
    /\ sim.crashed

\* the five telemetry lists
Telemetry ==
    <<sim.time_data, sim.aoa_data, sim.velocity_data, sim.gforce_data,
      sim.altitude_data>>

\* the five lists have one length, the number of frames the flight has run
Parallel ==
    /\ \A i \in 1..5 : Telemetry[i].len = sim.time_data.len
    /\ sim.time_data.len * dt = sim.flight_time

\* C24: while the program lives the five telemetry lists have one length,
\* the number of frames that have run; a frame that runs appends one value
\* to each, and a frame of a paused or halted flight appends nothing.
C24_TelemetryParallel ==
    /\ (phase # "raised" => Parallel)
    /\ [][/\ phase' # "raised" => Parallel'
          /\ FrameCompleted =>
               \A i \in 1..5 : Telemetry'[i].len = Telemetry[i].len + 1
          /\ ~FrameRan => Telemetry' = Telemetry]_vars

\* a flight paused after two frames, with two values in every list
C24_Witness ==
    /\ sim.menu_active /\ ~sim.run
    /\ sim.flight_time = 2 * dt
    /\ \A i \in 1..5 : Telemetry[i].len = 2

\* C25: with cruise speed A[1][2] = 50, a frame that starts from the zero
\* state vectors with the controls at rest and samples no key has true
\* airspeed 50 and forward velocity 50, and logs the velocity 50.
C25_CruiseAirspeed ==
    [][(FrameCompleted /\ cruise_speed(sim) = 50 /\ AtRest /\ held_keys' = {}) =>
         /\ Airspeed(sim') = 50 * Scale
         /\ ForwardVelocities(sim') = {50 * Scale}
         /\ Last(sim'.velocity_data) = 50 * Scale]_vars

\* the first frame of the cruising flight logged 50
C25_Witness ==
    /\ phase = "flying"
    /\ sim.flight_time = dt
    /\ held_keys = {}
    /\ cruise_speed(sim) = 50
    /\ AtRest
    /\ sim.velocity_data = [len |-> 1, tail |-> <<50 * Scale>>]

\* C26: end_simulation runs at most once for a flight, so the flight has at
\* most one PostFlight screen and its minutes and level change reach the
\* user record at most once.
C26_EndsAtMostOnce ==
    /\ session.postflights <= 1
    /\ session.level \in {Pilot.level,
                          PostFlight(Pilot, sim.flight_time, sim.crashed).level}
    /\ session.flight_minutes \in
          {Pilot.flight_minutes,
           PostFlight(Pilot, sim.flight_time, sim.crashed).flight_minutes}

\* one flight left two PostFlight screens and cost the pilot two levels
C26_TwoPostFlights ==
    /\ session.postflights = 2
    /\ session.level = Pilot.level - 2

\* C27: PostFlight() completes for every level 1..10 and every outcome: the
\* "minutes to next level" lookup into required_minutes has an index in 0..9.
C27_PostFlightCompletes ==
    /\ ~lab.post.raised
    /\ lab.post.index \in -1..(Len(required_minutes) - 1)

\* a pilot of level 10 landed, and the lookup was required_minutes[10]
C27_Level10Raises ==
    /\ lab.flights = 1
    /\ lab.before.level = 10
    /\ ~lab.crashed
    /\ lab.post.index = 10
    /\ lab.post.raised

\* what the claim of C28 allows one flight to do to the level
LevelRule(before, after, flight_time, crashed) ==
    /\ after.level \in 1..10
    /\ Abs(after.level - before.level) <= 1
    /\ (crashed /\ before.level > 1) => after.level = before.level - 1
    /\ after.level = before.level + 1 =>
          /\ ~crashed
          /\ flight_time >= 60 * Scale
          /\ before.level < 10
          /\ after.flight_minutes >= required_minutes[before.level + 1] * Scale
    /\ after.level = before.level - 1 => (crashed /\ before.level > 1)

\* C28: the pilot level stays in 1..10 and one flight changes it by at most
\* one: down by one when the flight crashed above level 1, up by one only
\* after a landing of at least a minute below level 10 with the new total at
\* the threshold of the next level, and otherwise not at all.
C28_LevelChangePerFlight ==
    /\ session.level \in 1..10
    /\ session.postflights = 0 => session.level = Pilot.level
    /\ session.postflights > 0 =>
          LevelRule(Pilot, session, sim.flight_time, sim.crashed)

\* each single PostFlight() keeps to the rule
C28_OnePostFlight ==
    lab.flights > 0 =>
       LevelRule(lab.before, lab.user, lab.flight_time, lab.crashed)

\* C29: menu_active implies not run; a frame while the pause menu is active
\* changes nothing of the flight; closing the menu of a flight that has not
\* crashed makes it run again from the state it was paused in.
C29_PauseConsistency ==
    /\ (sim.menu_active => ~sim.run)
    /\ [][/\ sim'.menu_active => ~sim'.run
          /\ sim.menu_active => FlightCore' = FlightCore
          /\ (sim.menu_active /\ ~sim'.menu_active /\ ~sim.crashed) =>
                (sim'.run /\ FlightCore' = FlightCore)]_vars

\* a flight that ran one frame with no key held and was paused: the frame
\* that then sampled "w" left the elevator and the timer alone
C29_Witness ==
    /\ sim.menu_active /\ ~sim.run /\ ~sim.crashed
    /\ sim.flight_time = dt
    /\ held_keys = {"w"}
    /\ sim.elevator = 0

\* the flight of C29_Witness resumed and ran its next frame
C29_ResumedAndRan ==
    /\ ~sim.menu_active /\ sim.run
    /\ sim.flight_time = 2 * dt
    /\ held_keys = {"s"}
    /\ sim.elevator = -(InputRate * dt)
    /\ budget = 0

\* what a frame that samples no key makes of the controls
Released == update_control_inputs(sim, {})

\* C30: a frame that samples no key of an axis makes a control of the axis
\* that is not 0 strictly smaller in magnitude without changing its sign,
\* and leaves a control at 0 at 0; with the keys of the elevator and the
\* aileron released for good, both controls reach 0 and stay there.
C30_ReleasedControlReturnsToZero ==
    /\ [](\A axis \in Axes :
            /\ sim[axis.control] = 0 => Released[axis.control] = 0
            /\ sim[axis.control] # 0 =>
                  Abs(Released[axis.control]) < Abs(sim[axis.control])
            /\ sim[axis.control] > 0 => Released[axis.control] >= 0
            /\ sim[axis.control] < 0 => Released[axis.control] <= 0)
    /\ <>[](sim.elevator = 0 /\ sim.aileron = 0)

\* the elevator released near its limit is back at 0 sixty frames later
C30_Witness ==
    /\ sim.time_data.len = ClimbFrames + 60
    /\ sim.elevator = 0
    /\ sim.aileron = 0
    /\ sim.rudder > 0
    /\ budget = ReleaseFrames - 60

====
